---------------------------- MODULE Spec2Model ----------------------------
(***************************************************************************)
(* Model of the maintenance scripts of the RAG QA logs & corpus dataset:   *)
(*   scripts/make_sample.py        (relational sampler)                    *)
(*   scripts/build_flat_table.py   (flat-table joiner)                     *)
(*   scripts/make_checksums.py     (checksum manifest writer / checker)    *)
(*   scripts/validate_dataset.py   (dataset validator)                     *)
(*   scripts/summarize_dataset.py  (statistics report)                     *)
(* Every script is one process invocation: it reads the five CSV tables of *)
(* the data directory, works in memory and writes its output.  One         *)
(* specification per script; the variables a script does not touch keep    *)
(* their initial value in that script's specification.                     *)
(***************************************************************************)
EXTENDS Integers, Sequences, FiniteSets, TLC

VARIABLES
    present,     \* names of the tables whose CSV file exists in --data-dir
    header,      \* header[t]: the column names in the header row of table t
    documents,   \* rows of rag_corpus_documents.csv
    chunks,      \* rows of rag_corpus_chunks.csv
    runs,        \* rows of rag_qa_eval_runs.csv
    scenarios,   \* rows of rag_qa_scenarios.csv
    events,      \* rows of rag_retrieval_events.csv
    args,        \* parsed command line of the invocation
    pc,          \* position of the process in main()
    mem,         \* local data frames / values of main()
    exit_code,   \* process exit status (-1 while running)
    stdout,      \* what was printed to standard output
    stderr,      \* what was printed to standard error
    out_files,   \* files written by the invocation
    repo_files,  \* make_checksums: covered path -> file content
    manifest     \* make_checksums: content of checksums.sha256 (or MISSING)

vars == <<present, header, documents, chunks, runs, scenarios, events, args,
          pc, mem, exit_code, stdout, stderr, out_files, repo_files, manifest>>

dataVars == <<present, header, documents, chunks, runs, scenarios, events>>
repoVars == <<repo_files, manifest>>

(***************************************************************************)
(* CSV cells and pandas column types.                                      *)
(***************************************************************************)
\* A cell of a CSV file is its text; the empty field is read as NaN.
NULL == "NaN"

\* The five logical tables (RAW_FILES / FILES keys), in the order main() reads them.
TableNames == <<"documents", "chunks", "runs", "scenarios", "events">>
AllTables == {TableNames[i] : i \in 1..Len(TableNames)}

\* The cell texts that parse as numbers; every other text ("x", "t",
\* "train", "d01", ...) does not.
NumericTokens == {"-1", "0", "1", "2", "3"}
IsNumeric(v) == v \in NumericTokens

\* df[c]: the column c of a table, as the sequence of its cells.
Col(rows, c) == [i \in 1..Len(rows) |-> rows[i][c]]
Cells(rows, c) == {rows[i][c] : i \in 1..Len(rows)}

\* pd.read_csv type inference for a column of identifier tokens: any
\* non-numeric text makes the column object; integers without a missing value
\* are int64; integers with a missing value become float64.
DType(rows, c) ==
    IF \E v \in Cells(rows, c) : v # NULL /\ ~IsNumeric(v) THEN "object"
    ELSE IF NULL \in Cells(rows, c) THEN "float64"
    ELSE "int64"

\* Series.astype(str) on one value of a column of the given dtype.
AsTypeStr(dt, v) ==
    IF v = NULL THEN "nan"
    ELSE IF dt = "float64" THEN v \o ".0"
    ELSE v

\* series.dropna().astype(str).unique() as a set.
StrValues(rows, c, dt) ==
    {AsTypeStr(dt, v) : v \in Cells(rows, c) \ {NULL}}

\* DataFrame.to_csv of one cell: NaN is written as the empty field, a float
\* with its decimal point, everything else as its text.
ToCsvCell(dt, v) ==
    IF v = NULL THEN ""
    ELSE IF dt = "float64" THEN v \o ".0"
    ELSE v

\* df[mask]: the rows at which the predicate holds, order kept.
RECURSIVE FilterRows(_, _, _, _)
FilterRows(rows, c, dt, keep) ==
    IF rows = <<>> THEN <<>>
    ELSE LET rest == FilterRows(Tail(rows), c, dt, keep)
         IN IF AsTypeStr(dt, Head(rows)[c]) \in keep
            THEN <<Head(rows)>> \o rest
            ELSE rest


\* set(child[c].dropna().astype(str).unique()) - set(parent[p].dropna()...):
\* the child's foreign-key values with no parent, compared as text.
FkMissing(child, child_col, parent, parent_col) ==
    StrValues(child, child_col, DType(child, child_col))
        \ StrValues(parent, parent_col, DType(parent, parent_col))

(***************************************************************************)
(* Bounds of the model and generators of input tables.                     *)
(***************************************************************************)
MaxEvents == 2      \* rows of the events table
MaxN == 3           \* largest --n-events value tried
MaxParentRows == 2  \* rows of a parent table given to build_flat_table
MaxContent == 1     \* file contents of the repository are 0..MaxContent
MaxEdits == 2       \* cells, columns, rows or files changed in the valid dataset
MaxMany == 11       \* chunks of the dataset with many documents
MaxRuns == 2        \* rows of the runs table the summarizer reads

SeqsUpTo(S, n) == UNION {[1..k -> S] : k \in 0..n}

\* The rows row[k], k in K, listed in the order of the sequence order.
KeyedRows(order, K, row) ==
    LET ks == SelectSeq(order, LAMBDA k : k \in K)
    IN [i \in 1..Len(ks) |-> row[ks[i]]]

NoArgs == [none |-> TRUE]
NoMem == [none |-> TRUE]
NoFiles == <<>>
MISSING == "<missing>"

\* The process has not started: nothing printed, no exit status, no output.
ProcessStart ==
    /\ pc = "start"
    /\ exit_code = -1
    /\ stdout = <<>>
    /\ stderr = <<>>
    /\ out_files = NoFiles

\* An uncaught Python exception: the interpreter prints the traceback on
\* standard error and the process exits with status 1.
Uncaught(exc) ==
    /\ pc' = "crashed"
    /\ exit_code' = 1
    /\ stderr' = Append(stderr, [kind |-> "traceback", text |-> exc])

(***************************************************************************)
(* scripts/make_sample.py                                                  *)
(***************************************************************************)
SampleRunIds == <<"1", "x">>
SampleChunkIds == <<"1">>
SampleDocIds == <<"1">>
SampleScenarioIds == <<"1">>
Range(s) == {s[i] : i \in 1..Len(s)}

SampleEventRows(hasScenario) ==
    [run_id : Range(SampleRunIds) \cup {NULL}, chunk_id : Range(SampleChunkIds),
     scenario_id : IF hasScenario THEN Range(SampleScenarioIds) \cup {NULL}
                   ELSE {NULL}]

FullHeader ==
    [t \in AllTables |->
        CASE t = "documents" -> {"doc_id"}
          [] t = "chunks" -> {"chunk_id", "doc_id"}
          [] t = "runs" -> {"run_id", "scenario_id"}
          [] t = "scenarios" -> {"scenario_id"}
          [] t = "events" -> {"run_id", "chunk_id", "scenario_id"}]

InitSample ==
    /\ ProcessStart
    /\ present \in {AllTables, AllTables \ {"events"}}
    /\ \E hasScenario \in BOOLEAN :
          /\ header = [FullHeader EXCEPT !["events"] =
                          IF hasScenario THEN @ ELSE @ \ {"scenario_id"}]
          /\ events \in SeqsUpTo(SampleEventRows(hasScenario), MaxEvents)
    /\ \E K \in SUBSET Range(SampleDocIds) :
          documents = KeyedRows(SampleDocIds, K, [k \in K |-> [doc_id |-> k]])
    /\ \E K \in SUBSET Range(SampleScenarioIds) :
          scenarios = KeyedRows(SampleScenarioIds, K, [k \in K |-> [scenario_id |-> k]])
    /\ \E K \in SUBSET Range(SampleChunkIds) :
          \E f \in [K -> Range(SampleDocIds) \cup {NULL}] :
             chunks = KeyedRows(SampleChunkIds, K,
                                [k \in K |-> [chunk_id |-> k, doc_id |-> f[k]]])
    /\ \E K \in SUBSET Range(SampleRunIds) :
          \E f \in [K -> Range(SampleScenarioIds) \cup {NULL}] :
             runs = KeyedRows(SampleRunIds, K,
                              [k \in K |-> [run_id |-> k, scenario_id |-> f[k]]])
    /\ args \in [n_events : -1..MaxN]
    /\ mem = NoMem
    /\ repo_files = NoFiles
    /\ manifest = MISSING

\* min(a, b)
Min(a, b) == IF a < b THEN a ELSE b

\* A sample drawn with replacement: a row position may be drawn again.
SampleDrawsWithReplacement(n, len) == [1..n -> 1..len]

\* events.sample(n=n, random_state=seed): n distinct row positions in the
\* order the generator draws them.  The seed fixes which; every choice is
\* the draw of some seed, so the model takes any.
SampleDraws(n, len) ==
    {p \in [1..n -> 1..len] : \A i, j \in 1..n : i # j => p[i] # p[j]}

\* main(), lines 49-56: read the five tables and draw the event sample.
ms_Sample ==
    /\ pc = "start"
    /\ IF present # AllTables
       THEN /\ Uncaught("FileNotFoundError")
            /\ UNCHANGED <<mem, stdout, out_files>>
       ELSE LET n == Min(args.n_events, Len(events))
            IN IF n < 0
               THEN /\ Uncaught("ValueError")
                    /\ UNCHANGED <<mem, stdout, out_files>>
               ELSE \E p \in SampleDraws(n, Len(events)) :
                       /\ mem' = [events_s |-> [i \in 1..n |-> events[p[i]]]]
                       /\ pc' = "sampled"
                       /\ UNCHANGED <<exit_code, stdout, stderr, out_files>>
    /\ UNCHANGED <<dataVars, args, repoVars>>

\* Lines 58-61: the identifiers the sampled events refer to.  The sample
\* keeps the dtype of the source column.
SampledRunIds(events_s) ==
    StrValues(events_s, "run_id", DType(events, "run_id"))
SampledChunkIds(events_s) ==
    StrValues(events_s, "chunk_id", DType(events, "chunk_id"))
EventScenarioIds(events_s) ==
    IF "scenario_id" \in header["events"]
    THEN StrValues(events_s, "scenario_id", DType(events, "scenario_id"))
    ELSE {}

\* Line 63.
RunsS(events_s) ==
    FilterRows(runs, "run_id", DType(runs, "run_id"), SampledRunIds(events_s))

\* Mutant of SampleScenarioSet: the scenarios of the kept runs are forgotten.
SampleScenarioSetEventsOnly(events_s) ==
    EventScenarioIds(events_s)

\* Lines 61, 64-65: the scenarios of the sampled events and of the kept runs.
SampleScenarioSet(events_s) ==
    EventScenarioIds(events_s)
       \cup (IF "scenario_id" \in header["runs"]
             THEN StrValues(RunsS(events_s), "scenario_id", DType(runs, "scenario_id"))
             ELSE {})

\* Line 67.
ChunksS(events_s) ==
    FilterRows(chunks, "chunk_id", DType(chunks, "chunk_id"), SampledChunkIds(events_s))

\* Lines 68-71.
SampleDocSet(events_s) ==
    IF "doc_id" \in header["chunks"]
    THEN StrValues(ChunksS(events_s), "doc_id", DType(chunks, "doc_id"))
    ELSE {}

\* Lines 73-76.
DocsS(events_s) ==
    IF "doc_id" \in header["documents"]
    THEN FilterRows(documents, "doc_id", DType(documents, "doc_id"),
                    SampleDocSet(events_s))
    ELSE <<>>

\* Line 78.
ScenariosS(events_s) ==
    FilterRows(scenarios, "scenario_id", DType(scenarios, "scenario_id"),
               SampleScenarioSet(events_s))

\* main(), lines 58-78: restrict the four other tables to the sample.
ms_Filter ==
    /\ pc = "sampled"
    /\ mem' = [events_s |-> mem.events_s,
               runs_s |-> RunsS(mem.events_s),
               chunks_s |-> ChunksS(mem.events_s),
               docs_s |-> DocsS(mem.events_s),
               scenarios_s |-> ScenariosS(mem.events_s)]
    /\ pc' = "filtered"
    /\ UNCHANGED <<dataVars, args, repoVars, exit_code, stdout, stderr, out_files>>

\* _write_csv: the rows as CSV text, each column written with the dtype of
\* the source column it was taken from.
WriteCsv(rows, source, cols) ==
    [i \in 1..Len(rows) |->
        [c \in cols |-> ToCsvCell(DType(source, c), rows[i][c])]]

\* main(), lines 80-94: write the five tables, print the counts, return 0.
ms_Write ==
    /\ pc = "filtered"
    /\ out_files' =
          [t \in AllTables |->
              CASE t = "documents" -> WriteCsv(mem.docs_s, documents, {"doc_id"})
                [] t = "chunks" -> WriteCsv(mem.chunks_s, chunks, {"chunk_id", "doc_id"})
                [] t = "runs" -> WriteCsv(mem.runs_s, runs, {"run_id", "scenario_id"})
                [] t = "scenarios" -> WriteCsv(mem.scenarios_s, scenarios, {"scenario_id"})
                [] t = "events" -> WriteCsv(mem.events_s, events,
                                            {"run_id", "chunk_id", "scenario_id"})]
    /\ stdout' = Append(stdout, [kind |-> "sample created",
                                 events |-> Len(mem.events_s),
                                 runs |-> Len(mem.runs_s),
                                 chunks |-> Len(mem.chunks_s),
                                 documents |-> Len(mem.docs_s),
                                 scenarios |-> Len(mem.scenarios_s)])
    /\ exit_code' = 0
    /\ pc' = "done"
    /\ UNCHANGED <<dataVars, args, repoVars, mem, stderr>>

NextSample == ms_Sample \/ ms_Filter \/ ms_Write

SpecSample == InitSample /\ [][NextSample]_vars


(***************************************************************************)
(* Properties of make_sample.py                                            *)
(***************************************************************************)
\* Every non-empty cell of column child_col of the written child file is the
\* cell parent_col of some row of the written parent file.
OutFkResolved(child, child_col, parent, parent_col) ==
    \A i \in 1..Len(out_files[child]) :
       out_files[child][i][child_col] # ""
          => \E j \in 1..Len(out_files[parent]) :
                out_files[parent][j][parent_col] = out_files[child][i][child_col]

SampleOutClosed ==
    /\ OutFkResolved("events", "run_id", "runs", "run_id")
    /\ OutFkResolved("events", "chunk_id", "chunks", "chunk_id")
    /\ OutFkResolved("events", "scenario_id", "scenarios", "scenario_id")
    /\ OutFkResolved("runs", "scenario_id", "scenarios", "scenario_id")
    /\ OutFkResolved("chunks", "doc_id", "documents", "doc_id")

\* The source tables are referentially closed, foreign keys compared as the
\* validator's foreign-key check compares them.
SourceFkComplete ==
    /\ FkMissing(events, "run_id", runs, "run_id") = {}
    /\ FkMissing(events, "chunk_id", chunks, "chunk_id") = {}
    /\ FkMissing(events, "scenario_id", scenarios, "scenario_id") = {}
    /\ FkMissing(runs, "scenario_id", scenarios, "scenario_id") = {}
    /\ FkMissing(chunks, "doc_id", documents, "doc_id") = {}

\* C1 (as stated): after make_sample has run, for any n-events and any seed,
\* every run_id, chunk_id, scenario_id and doc_id in a foreign-key column of
\* an output table is a primary key of the corresponding output table.
C1_ClosureAnySource ==
    pc = "done" => SampleOutClosed

\* C1 (amended): when the source tables are themselves referentially closed,
\* then after make_sample has run, for any n-events and any seed, every
\* foreign-key value of an output table is a primary key of the
\* corresponding output table.
C1_ClosureOnClosedSource ==
    (pc = "done" /\ SourceFkComplete) => SampleOutClosed

\* A proper sub-sample of a closed source whose only scenario reference comes
\* from the kept run, not from the sampled event.
C1_Witness ==
    /\ pc = "done"
    /\ SourceFkComplete
    /\ Len(events) = 2
    /\ Len(out_files["events"]) = 1
    /\ out_files["events"][1]["scenario_id"] = ""
    /\ Len(out_files["runs"]) = 1
    /\ Len(runs) = 2
    /\ Len(out_files["scenarios"]) = 1
    /\ Len(out_files["documents"]) = 1


(***************************************************************************)
(* scripts/build_flat_table.py                                             *)
(*                                                                         *)
(* Identifiers are integers in this specification, so the key columns of   *)
(* both sides of every merge are numeric and pandas compares them by       *)
(* value.  total_latency_ms is a float, kept in hundredths of a            *)
(* millisecond: 250.01 ms is 25001.                                        *)
(***************************************************************************)
\* Hundredths per millisecond.
Centi == 100

\* A numeric cell: a float or NaN.
Num(v) == [isna |-> FALSE, val |-> v]
NaN == [isna |-> TRUE, val |-> 0]

\* float("inf"): above every finite latency of the model.
INF == 1000000000

\* bins= and labels= of the latency pd.cut, lines 107-108.
LatencyBins ==
    <<-10, 250 * Centi, 500 * Centi, 1000 * Centi, 2000 * Centi, 5000 * Centi, INF>>
LatencyLabels ==
    <<"<=250", "251-500", "501-1000", "1001-2000", "2001-5000", ">5000">>

\* Mutant of SearchSorted: side="right", i.e. pd.cut(right=False).
SearchSortedRight(bins, x) ==
    Cardinality({i \in 1..Len(bins) : bins[i] <= x})

\* bins.searchsorted(x, side="left"): the number of edges below x.
SearchSorted(bins, x) ==
    Cardinality({i \in 1..Len(bins) : bins[i] < x})

\* pd.cut(x, bins, labels) with the default right=True, include_lowest=False:
\* NaN, a value at or below the first edge and a value above the last edge
\* get no category.
Cut(x, bins, labels) ==
    IF x.isna THEN NULL
    ELSE LET ids == SearchSorted(bins, x.val)
         IN IF ids = 0 \/ ids = Len(bins) THEN NULL ELSE labels[ids]

\* The missing value of a column: NaN for the float column, NaN text otherwise.
NullOf(c) == IF c = "total_latency_ms" THEN NaN ELSE NULL

\* validate="m:1": the merge keys of the right table are unique (two missing
\* keys are duplicates of each other).
RightKeysUnique(right, key) ==
    \A i, j \in 1..Len(right) : right[i][key] = right[j][key] => i = j

\* The columns of the right table under the names they get in the result:
\* the key is shared, a colliding column takes the suffix, lines 70-101.
Renamed(leftCols, rightCols, key, suffix) ==
    [c \in rightCols \ {key} |-> IF c \in leftCols THEN c \o suffix ELSE c]

\* The result rows of one left row: one per matching right row, or one with
\* the right columns missing when none matches.
RECURSIVE Flatten(_)
Flatten(ss) == IF ss = <<>> THEN <<>> ELSE Head(ss) \o Flatten(Tail(ss))

JoinedRow(lrow, rrow, names) ==
    [c \in DOMAIN lrow \cup {names[d] : d \in DOMAIN names} |->
        IF c \in DOMAIN lrow THEN lrow[c]
        ELSE rrow[CHOOSE d \in DOMAIN names : names[d] = c]]

UnmatchedRow(lrow, names) ==
    [c \in DOMAIN lrow \cup {names[d] : d \in DOMAIN names} |->
        IF c \in DOMAIN lrow THEN lrow[c]
        ELSE NullOf(CHOOSE d \in DOMAIN names : names[d] = c)]

\* Mutant of MergeLeft: how="inner", a left row without a match is dropped.
MergeInner(left, right, key, names) ==
    Flatten([i \in 1..Len(left) |->
        LET m == SelectSeq(right, LAMBDA r : r[key] = left[i][key])
        IN [j \in 1..Len(m) |-> JoinedRow(left[i], m[j], names)]])

\* left.merge(right, on=key, how="left", suffixes=("", suffix)).
MergeLeft(left, right, key, names) ==
    Flatten([i \in 1..Len(left) |->
        LET m == SelectSeq(right, LAMBDA r : r[key] = left[i][key])
        IN IF m = <<>> THEN <<UnmatchedRow(left[i], names)>>
           ELSE [j \in 1..Len(m) |-> JoinedRow(left[i], m[j], names)]])

\* Restrict the rows of a table to the columns of its header.
Frame(rows, cols) == [i \in 1..Len(rows) |-> [c \in cols |-> rows[i][c]]]

\* One merge step of main(): MergeError when the right keys repeat.
MergeStep(rightRows, rightCols, key, suffix, next) ==
    LET right == Frame(rightRows, rightCols)
        names == Renamed(mem.cols, rightCols, key, suffix)
    IN IF ~RightKeysUnique(right, key)
       THEN /\ Uncaught("MergeError")
            /\ UNCHANGED mem
       ELSE /\ mem' = [df |-> MergeLeft(mem.df, right, key, names),
                       cols |-> mem.cols \cup {names[d] : d \in DOMAIN names}]
            /\ pc' = next
            /\ UNCHANGED <<exit_code, stderr>>

\* main(), lines 63-67: read the five tables; df starts as events.
ft_Read ==
    /\ pc = "start"
    /\ IF present # AllTables
       THEN /\ Uncaught("FileNotFoundError")
            /\ UNCHANGED mem
       ELSE /\ mem' = [df |-> Frame(events, header["events"]),
                       cols |-> header["events"]]
            /\ pc' = "merge_runs"
            /\ UNCHANGED <<exit_code, stderr>>
    /\ UNCHANGED <<dataVars, args, repoVars, stdout, out_files>>

\* Lines 70-76.
ft_MergeRuns ==
    /\ pc = "merge_runs"
    /\ MergeStep(runs, header["runs"], "run_id", "_run", "merge_chunks")
    /\ UNCHANGED <<dataVars, args, repoVars, stdout, out_files>>

\* Lines 77-83.
ft_MergeChunks ==
    /\ pc = "merge_chunks"
    /\ MergeStep(chunks, header["chunks"], "chunk_id", "_chunk", "merge_docs")
    /\ UNCHANGED <<dataVars, args, repoVars, stdout, out_files>>

\* Lines 84-91.
ft_MergeDocs ==
    /\ pc = "merge_docs"
    /\ IF "doc_id" \in mem.cols /\ "doc_id" \in header["documents"]
       THEN MergeStep(documents, header["documents"], "doc_id", "_doc",
                      "merge_scenarios")
       ELSE /\ pc' = "merge_scenarios"
            /\ UNCHANGED <<mem, exit_code, stderr>>
    /\ UNCHANGED <<dataVars, args, repoVars, stdout, out_files>>

\* Lines 94-101.
ft_MergeScenarios ==
    /\ pc = "merge_scenarios"
    /\ IF "scenario_id" \in mem.cols /\ "scenario_id" \in header["scenarios"]
       THEN MergeStep(scenarios, header["scenarios"], "scenario_id", "_scenario",
                      "derive")
       ELSE /\ pc' = "derive"
            /\ UNCHANGED <<mem, exit_code, stderr>>
    /\ UNCHANGED <<dataVars, args, repoVars, stdout, out_files>>

\* Lines 104-109: the latency bucket of every row.
ft_Derive ==
    /\ pc = "derive"
    /\ IF "total_latency_ms" \in mem.cols
       THEN mem' = [df |-> [i \in 1..Len(mem.df) |->
                              [c \in DOMAIN mem.df[i] \cup {"latency_bucket"} |->
                                  IF c = "latency_bucket"
                                  THEN Cut(mem.df[i]["total_latency_ms"],
                                           LatencyBins, LatencyLabels)
                                  ELSE mem.df[i][c]]],
                    cols |-> mem.cols \cup {"latency_bucket"}]
       ELSE UNCHANGED mem
    /\ pc' = "write"
    /\ UNCHANGED <<dataVars, args, repoVars, exit_code, stdout, stderr, out_files>>

\* Lines 124-142: write the flat table as parquet or csv, print, return 0.
ft_Write ==
    /\ pc = "write"
    /\ LET fmt == IF args.format = "auto"
                  THEN (IF args.pyarrow THEN "parquet" ELSE "csv")
                  ELSE args.format
       IN IF fmt = "parquet" /\ ~args.pyarrow
          THEN /\ Uncaught("ImportError")
               /\ UNCHANGED <<stdout, out_files>>
          ELSE /\ out_files' = [format |-> fmt, rows |-> mem.df, cols |-> mem.cols]
               /\ stdout' = Append(stdout, [kind |-> "wrote " \o fmt,
                                            rows |-> Len(mem.df),
                                            cols |-> Cardinality(mem.cols)])
               /\ exit_code' = 0
               /\ pc' = "done"
               /\ UNCHANGED stderr
    /\ UNCHANGED <<dataVars, args, repoVars, mem>>

NextFlat ==
    \/ ft_Read
    \/ ft_MergeRuns
    \/ ft_MergeChunks
    \/ ft_MergeDocs
    \/ ft_MergeScenarios
    \/ ft_Derive
    \/ ft_Write


(***************************************************************************)
(* Inputs of build_flat_table.py: either tables of every shape (repeated,  *)
(* missing and unmatched keys) with one latency, or one event of one run   *)
(* with every latency around the bucket edges.                             *)
(***************************************************************************)
FlatHeader ==
    [t \in AllTables |->
        CASE t = "documents" -> {"doc_id"}
          [] t = "chunks" -> {"chunk_id", "doc_id"}
          [] t = "runs" -> {"run_id", "scenario_id", "total_latency_ms"}
          [] t = "scenarios" -> {"scenario_id"}
          [] t = "events" -> {"run_id", "chunk_id", "scenario_id"}]

FlatRunRows ==
    {[run_id |-> "1", scenario_id |-> "1", total_latency_ms |-> Num(250 * Centi)],
     [run_id |-> NULL, scenario_id |-> NULL, total_latency_ms |-> NaN]}
FlatChunkRows ==
    {[chunk_id |-> "1", doc_id |-> "1"], [chunk_id |-> "1", doc_id |-> NULL]}
FlatEventRows(hasScenario) ==
    [run_id : {"1", "2", NULL}, chunk_id : {"1"},
     scenario_id : IF hasScenario THEN {"1"} ELSE {NULL}]

\* Latencies in hundredths of a millisecond: at, just below and just above
\* every edge, zero, below the first edge, 999999 ms and infinity.
LatencyProbes ==
    {-20, -5, 0, 1, 999999 * Centi}
       \cup UNION {{LatencyBins[i] - 1, LatencyBins[i], LatencyBins[i] + 1} :
                     i \in 1..(Len(LatencyBins) - 1)}
       \cup {INF}

FlatFormats == {"auto", "parquet", "csv"}

InitFlatTables ==
    /\ present = AllTables
    /\ \E hasScenario \in BOOLEAN :
          /\ header = [FlatHeader EXCEPT !["events"] =
                          IF hasScenario THEN @ ELSE @ \ {"scenario_id"}]
          /\ events \in SeqsUpTo(FlatEventRows(hasScenario), MaxEvents)
    /\ runs \in SeqsUpTo(FlatRunRows, MaxParentRows)
    /\ chunks \in SeqsUpTo(FlatChunkRows, MaxParentRows)
    /\ documents \in SeqsUpTo({[doc_id |-> "1"]}, MaxParentRows)
    /\ scenarios \in SeqsUpTo({[scenario_id |-> "1"]}, MaxParentRows)
    /\ args = [format |-> "auto", pyarrow |-> TRUE]

InitFlatLatency ==
    /\ present \in {AllTables, AllTables \ {"runs"}}
    /\ \E hasLatency \in BOOLEAN :
          /\ header = [FlatHeader EXCEPT
                          !["events"] = @ \ {"scenario_id"},
                          !["runs"] = IF hasLatency THEN @
                                      ELSE @ \ {"total_latency_ms"}]
          /\ \E x \in IF hasLatency
                      THEN {Num(v) : v \in LatencyProbes} \cup {NaN}
                      ELSE {NaN} :
                runs = <<[run_id |-> "1", scenario_id |-> "1",
                          total_latency_ms |-> x]>>
    /\ events \in {<<[run_id |-> "1", chunk_id |-> "1", scenario_id |-> NULL]>>,
                   <<[run_id |-> "2", chunk_id |-> "1", scenario_id |-> NULL]>>}
    /\ chunks = <<[chunk_id |-> "1", doc_id |-> "1"]>>
    /\ documents = <<[doc_id |-> "1"]>>
    /\ scenarios = <<[scenario_id |-> "1"]>>
    /\ args \in [format : FlatFormats, pyarrow : BOOLEAN]

InitFlat ==
    /\ ProcessStart
    /\ InitFlatTables \/ InitFlatLatency
    /\ mem = NoMem
    /\ repo_files = NoFiles
    /\ manifest = MISSING

SpecFlat == InitFlat /\ [][NextFlat]_vars


(***************************************************************************)
(* Properties of build_flat_table.py                                       *)
(***************************************************************************)
\* Many-to-one holds: no parent table repeats a join key.
ParentKeysUnique ==
    /\ RightKeysUnique(runs, "run_id")
    /\ RightKeysUnique(chunks, "chunk_id")
    /\ RightKeysUnique(documents, "doc_id")
    /\ RightKeysUnique(scenarios, "scenario_id")

MergeErrorRaised ==
    \E i \in 1..Len(stderr) : stderr[i].text = "MergeError"

\* C2: when runs, chunks, documents and scenarios have unique join keys, the
\* chain of left joins raises no cardinality error and the flat table written
\* has exactly one row per input event, in the input order, whether or not
\* the event's keys have a match.
C2_FlatRowCount ==
    ParentKeysUnique =>
       /\ ~MergeErrorRaised
       /\ pc = "done" =>
             /\ Len(out_files.rows) = Len(events)
             /\ \A i \in 1..Len(events) :
                   /\ out_files.rows[i]["run_id"] = events[i]["run_id"]
                   /\ out_files.rows[i]["chunk_id"] = events[i]["chunk_id"]

\* Two events written, the second with a run_id that no run has.
C2_Witness ==
    /\ pc = "done"
    /\ ParentKeysUnique
    /\ Len(events) = 2
    /\ Len(out_files.rows) = 2
    /\ Len(runs) = 1
    /\ events[1]["run_id"] = runs[1]["run_id"]
    /\ events[2]["run_id"] = "2"
    /\ out_files.rows[2]["total_latency_ms"] = NaN
    /\ out_files.rows[1]["total_latency_ms"] # NaN

\* The bucket of a latency, read off the right-closed intervals between the
\* edges 250, 500, 1000, 2000 and 5000 ms.
ExpectedLatencyBucket(v) ==
    IF v <= -10 THEN NULL
    ELSE IF v <= 250 * Centi THEN "<=250"
    ELSE IF v <= 500 * Centi THEN "251-500"
    ELSE IF v <= 1000 * Centi THEN "501-1000"
    ELSE IF v <= 2000 * Centi THEN "1001-2000"
    ELSE IF v <= 5000 * Centi THEN "2001-5000"
    ELSE ">5000"

\* C8: in the flat table a total_latency_ms of exactly 250 gets "<=250",
\* 250.01 gets "251-500", 999999 gets ">5000"; each bucket is the
\* right-closed interval between consecutive edges, every non-negative value
\* gets exactly one bucket, a missing value or a value outside all edges none.
C8_LatencyBuckets ==
    (pc = "done" /\ "total_latency_ms" \in out_files.cols) =>
       \A i \in 1..Len(out_files.rows) :
          LET x == out_files.rows[i]["total_latency_ms"]
              b == out_files.rows[i]["latency_bucket"]
          IN /\ x.isna => b = NULL
             /\ ~x.isna => b = ExpectedLatencyBucket(x.val)
             /\ x = Num(250 * Centi) => b = "<=250"
             /\ x = Num(250 * Centi + 1) => b = "251-500"
             /\ x = Num(999999 * Centi) => b = ">5000"
             /\ (~x.isna /\ x.val >= 0) => b \in Range(LatencyLabels)
             /\ (~x.isna /\ x.val <= LatencyBins[1]) => b = NULL

\* A flat table written with a latency of exactly 250 ms in its first bucket.
C8_Witness ==
    /\ pc = "done"
    /\ "total_latency_ms" \in out_files.cols
    /\ \E i \in 1..Len(out_files.rows) :
          /\ out_files.rows[i]["total_latency_ms"] = Num(250 * Centi)
          /\ out_files.rows[i]["latency_bucket"] = "<=250"


(***************************************************************************)
(* scripts/make_checksums.py                                               *)
(*                                                                         *)
(* A session on one checkout: invocations of the tool in write mode and in *)
(* --check mode, between which files of the repository are changed, added *)
(* or removed.  repo_files maps every existing path to its content;        *)
(* manifest is the content of checksums.sha256.  mem remembers the covered *)
(* files as they were at the last write.                                   *)
(***************************************************************************)
\* Candidate paths matched by the patterns of iter_target_files, listed in
\* the order of their lower-cased names (the sort key of line 43); in plain
\* string order "README.md" and "data/B.csv" would come first.
TargetPathsByLowerName == <<"data/a.csv", "data/B.csv", "README.md">>

\* A path no pattern matches.
OtherPaths == {"notes.txt"}

RepoPaths == Range(TargetPathsByLowerName) \cup OtherPaths
Contents == 0..MaxContent

\* Mutant of Sha256File: the digest does not read the file.
Sha256FileOfNothing(content) == "sha256-0"

\* sha256_file: the hex digest of a file, one digest per content (SHA-256 has
\* no collision among the contents of the model).
Sha256File(content) == "sha256-" \o ToString(content)

\* iter_target_files: the existing files the patterns match, sorted
\* case-insensitively by relative path.
IterTargetFiles(files) ==
    SelectSeq(TargetPathsByLowerName, LAMBDA q : q \in DOMAIN files)

\* build_lines: "<digest>  <relative path>" per target file.
BuildLines(files) ==
    LET t == IterTargetFiles(files)
    IN [i \in 1..Len(t) |-> Sha256File(files[t[i]]) \o "  " \o t[i]]

\* "\n".join(lines) + "\n"
RECURSIVE JoinLines(_)
JoinLines(lines) ==
    IF lines = <<>> THEN ""
    ELSE IF Len(lines) = 1 THEN lines[1]
    ELSE lines[1] \o "\n" \o JoinLines(Tail(lines))

ManifestContent(files) == JoinLines(BuildLines(files)) \o "\n"

\* The covered part of the repository: target path -> content.
TargetFiles(files) ==
    [q \in DOMAIN files \cap Range(TargetPathsByLowerName) |-> files[q]]

\* Mutant of CheckResult: a missing manifest is reported like a mismatch.
CheckResultMissingAsMismatch(existing, content) ==
    IF existing = MISSING THEN 1
    ELSE IF existing # content THEN 1
    ELSE 0

\* main(), lines 68-78: the return value of --check.
CheckResult(existing, content) ==
    IF existing = MISSING THEN 2
    ELSE IF existing # content THEN 1
    ELSE 0

\* main() without --check, lines 65-66 and 80-82: write the manifest.
ck_Write ==
    /\ manifest' = ManifestContent(repo_files)
    /\ args' = [check |-> FALSE]
    /\ stdout' = <<[kind |-> "Wrote checksums.sha256",
                    entries |-> Len(BuildLines(repo_files))]>>
    /\ exit_code' = 0
    /\ pc' = "exited"
    /\ mem' = [written |-> TRUE, at_write |-> TargetFiles(repo_files)]
    /\ UNCHANGED <<dataVars, repo_files, stderr, out_files>>

\* main() with --check, lines 65-78: compare, never write.
ck_Check ==
    /\ LET rc == CheckResult(manifest, ManifestContent(repo_files))
       IN /\ exit_code' = rc
          /\ stdout' = <<[kind |-> CASE rc = 2 -> "checksums.sha256 is missing"
                                     [] rc = 1 -> "checksums.sha256 does not match"
                                     [] OTHER -> "checksums.sha256 OK",
                          entries |-> Len(BuildLines(repo_files))]>>
    /\ args' = [check |-> TRUE]
    /\ pc' = "exited"
    /\ UNCHANGED <<dataVars, repoVars, mem, stderr, out_files>>

\* Between invocations: the result of the last invocation is history.
BetweenRuns ==
    /\ pc' = "idle"
    /\ exit_code' = -1
    /\ stdout' = <<>>
    /\ UNCHANGED <<dataVars, args, mem, stderr, out_files, manifest>>

\* A byte of an existing file changes.
env_ChangeFile ==
    /\ \E q \in DOMAIN repo_files : \E c \in Contents \ {repo_files[q]} :
          repo_files' = [repo_files EXCEPT ![q] = c]
    /\ BetweenRuns

\* A file is created.
env_AddFile ==
    /\ \E q \in RepoPaths \ DOMAIN repo_files : \E c \in Contents :
          repo_files' = [r \in DOMAIN repo_files \cup {q} |->
                            IF r = q THEN c ELSE repo_files[r]]
    /\ BetweenRuns

\* A file is deleted.
env_RemoveFile ==
    /\ \E q \in DOMAIN repo_files :
          repo_files' = [r \in DOMAIN repo_files \ {q} |-> repo_files[r]]
    /\ BetweenRuns

InitChecksums ==
    /\ pc = "idle"
    /\ exit_code = -1
    /\ stdout = <<>>
    /\ stderr = <<>>
    /\ out_files = NoFiles
    /\ args = [check |-> FALSE]
    /\ mem = [written |-> FALSE, at_write |-> [q \in {} |-> 0]]
    /\ \E S \in SUBSET RepoPaths : repo_files \in [S -> Contents]
    /\ manifest = MISSING
    /\ present = {}
    /\ header = [t \in AllTables |-> {}]
    /\ documents = <<>>
    /\ chunks = <<>>
    /\ runs = <<>>
    /\ scenarios = <<>>
    /\ events = <<>>

NextChecksums ==
    \/ ck_Write
    \/ ck_Check
    \/ env_ChangeFile
    \/ env_AddFile
    \/ env_RemoveFile

SpecChecksums == InitChecksums /\ [][NextChecksums]_vars

(***************************************************************************)
(* Properties of make_checksums.py                                         *)
(***************************************************************************)
\* The last invocation was a --check and nothing happened since.
JustChecked == pc = "exited" /\ args.check

\* C3: a --check that follows a write returns 0 when no covered file differs
\* from what it was at the write, and returns 1 when a covered file has
\* changed since the write.
C3_RoundTrip ==
    (JustChecked /\ mem.written) =>
       /\ TargetFiles(repo_files) = mem.at_write => exit_code = 0
       /\ TargetFiles(repo_files) # mem.at_write => exit_code = 1

\* A --check returning 1 after a write and a change of the content of a
\* covered file that is still there.
C3_Witness ==
    /\ JustChecked
    /\ mem.written
    /\ exit_code = 1
    /\ DOMAIN TargetFiles(repo_files) = DOMAIN mem.at_write
    /\ \E q \in DOMAIN mem.at_write : repo_files[q] # mem.at_write[q]

\* C4 (as stated): --check exits with code 1 when checksums.sha256 is
\* missing and with code 1 when it differs from the freshly computed
\* manifest, and writes the manifest in neither case.
C4_CheckExitsOne ==
    [][(args'.check /\ pc' = "exited"
          /\ (manifest = MISSING \/ manifest # ManifestContent(repo_files)))
        => (exit_code' = 1 /\ manifest' = manifest)]_vars

\* C4 (amended): --check exits with code 2 when checksums.sha256 is missing
\* and with code 1 when it exists but differs from the freshly computed
\* manifest, and writes the manifest in neither case.
C4_CheckExitCodes ==
    [][(args'.check /\ pc' = "exited")
        => /\ manifest = MISSING => exit_code' = 2
           /\ (manifest # MISSING /\ manifest # ManifestContent(repo_files))
                 => exit_code' = 1
           /\ manifest' = manifest]_vars

\* A --check on a checkout without manifest has returned 2 and left it missing.
C4_Witness ==
    /\ JustChecked
    /\ manifest = MISSING
    /\ exit_code = 2
    /\ DOMAIN repo_files # {}


(***************************************************************************)
(* scripts/validate_dataset.py                                             *)
(*                                                                         *)
(* Inputs: a valid dataset of two rows per table in which up to MaxEdits   *)
(* things are changed (a cell of the last row is given another text, a     *)
(* column, a row or a file is removed), and a dataset of up to MaxMany     *)
(* chunks, one document each, of which any documents are absent.           *)
(***************************************************************************)
ValidTables ==
    [t \in AllTables |->
        CASE t = "documents" -> <<[doc_id |-> "1"], [doc_id |-> "2"]>>
          [] t = "chunks" ->
                <<[chunk_id |-> "1", doc_id |-> "1", chunk_text |-> "t"],
                  [chunk_id |-> "2", doc_id |-> "2", chunk_text |-> "t"]>>
          [] t = "scenarios" -> <<[scenario_id |-> "1"], [scenario_id |-> "2"]>>
          [] t = "runs" ->
                <<[run_id |-> "1", scenario_id |-> "1", example_id |-> "1",
                   query_id |-> "1", is_correct |-> "1", total_latency_ms |-> "2",
                   recall_at_k |-> "1", query |-> "t"],
                  [run_id |-> "2", scenario_id |-> "2", example_id |-> "2",
                   query_id |-> "2", is_correct |-> "0", total_latency_ms |-> "0",
                   recall_at_k |-> "0", query |-> "t"]>>
          [] t = "events" ->
                <<[run_id |-> "1", chunk_id |-> "1", rank |-> "1",
                   is_relevant |-> "1", scenario_id |-> "1", split |-> "train",
                   retrieval_score |-> "1"],
                  [run_id |-> "1", chunk_id |-> "2", rank |-> "2",
                   is_relevant |-> "0", scenario_id |-> "2", split |-> "test",
                   retrieval_score |-> "-1"]>>]

ValidHeader == [t \in AllTables |-> DOMAIN ValidTables[t][1]]

\* The texts an edit may put in a field of column c of the CSV file; "" is
\* the empty field.
ColumnDomain(c) ==
    CASE c \in {"doc_id", "chunk_id", "scenario_id", "run_id"} -> {"1", "2", "3", ""}
      [] c = "example_id" -> {"1", "2", ""}
      [] c \in {"query_id", "chunk_text", "query", "retrieval_score"} -> {""}
      [] c \in {"is_correct", "is_relevant"} -> {"2", "x"}
      [] c = "rank" -> {"0", "1", "2", "x", ""}
      [] c = "total_latency_ms" -> {"-1", "x"}
      [] c = "recall_at_k" -> {"-1", "2"}
      [] c = "split" -> {"bad", ""}

\* _read, lines 32-33: pd.read_csv with its default na_values loads an empty
\* field, quoted or not, as the missing value NaN; any other text of the
\* model is kept.
ReadCsvField(field) == IF field = "" THEN NULL ELSE field

Edit(kind, t, i, c, v) == [kind |-> kind, table |-> t, row |-> i, col |-> c, val |-> v]

AllEdits ==
    UNION {
       UNION {{Edit("cell", t, Len(ValidTables[t]), c, v) :
                   v \in ColumnDomain(c) \ {ValidTables[t][Len(ValidTables[t])][c]}}
              : c \in ValidHeader[t]}
       \cup {Edit("drop_col", t, 0, c, "") : c \in ValidHeader[t]}
       \cup {Edit("drop_row", t, i, "", "") : i \in 1..Len(ValidTables[t])}
       \cup {Edit("no_file", t, 0, "", "")}
       : t \in AllTables}

\* The sets of at most k edits.
RECURSIVE EditSets(_)
EditSets(k) ==
    IF k = 0 THEN {{}}
    ELSE LET smaller == EditSets(k - 1)
         IN smaller \cup {E \cup {e} : E \in smaller, e \in AllEdits}

EditedHeader(E, t) ==
    ValidHeader[t] \ {e.col : e \in {d \in E : d.kind = "drop_col" /\ d.table = t}}

EditedCell(E, t, i, c) ==
    LET hits == {e \in E : e.kind = "cell" /\ e.table = t /\ e.row = i /\ e.col = c}
    IN IF c \notin EditedHeader(E, t) THEN NULL
       ELSE IF hits = {} THEN ValidTables[t][i][c]
       ELSE (CHOOSE e \in hits : TRUE).val

EditedRows(E, t) ==
    LET kept == SelectSeq([i \in 1..Len(ValidTables[t]) |-> i],
                          LAMBDA i : Edit("drop_row", t, i, "", "") \notin E)
    IN [k \in 1..Len(kept) |->
          [c \in ValidHeader[t] |-> ReadCsvField(EditedCell(E, t, kept[k], c))]]

InitValidateEdited ==
    \E E \in EditSets(MaxEdits) :
       /\ present = AllTables \ {e.table : e \in {d \in E : d.kind = "no_file"}}
       /\ header = [t \in AllTables |-> EditedHeader(E, t)]
       /\ documents = EditedRows(E, "documents")
       /\ chunks = EditedRows(E, "chunks")
       /\ runs = EditedRows(E, "runs")
       /\ scenarios = EditedRows(E, "scenarios")
       /\ events = EditedRows(E, "events")

\* The k-th identifier of the large dataset: d01, d02, ...
BigId(k) == "d" \o (IF k < 10 THEN "0" ELSE "") \o ToString(k)

InitValidateMany ==
    /\ present = AllTables
    /\ header = ValidHeader
    /\ \E n \in 1..MaxMany :
          /\ chunks = [k \in 1..n |->
                         [chunk_id |-> BigId(n + 1 - k), doc_id |-> BigId(n + 1 - k),
                          chunk_text |-> "t"]]
          /\ \E D \in SUBSET (1..n) :
                documents = [k \in 1..Cardinality(D) |->
                    [doc_id |-> BigId(CHOOSE d \in D :
                                  Cardinality({y \in D : y > d}) = k - 1)]]
    /\ runs = ValidTables["runs"]
    /\ scenarios = ValidTables["scenarios"]
    /\ events = [i \in 1..2 |->
                   [ValidTables["events"][i] EXCEPT !["chunk_id"] = BigId(1)]]

InitValidate ==
    /\ ProcessStart
    /\ InitValidateEdited \/ InitValidateMany
    /\ args = NoArgs
    /\ mem = [ran |-> <<>>]
    /\ repo_files = NoFiles
    /\ manifest = MISSING


\* Program constants of the validator.
UniqueSampleLimit == 5
FkSampleLimit == 10
SetSampleLimit == 10
RangeSampleLimit == 10

\* The number a numeric cell text stands for.
TokenValue(v) ==
    CASE v = "-1" -> -1 [] v = "0" -> 0 [] v = "1" -> 1 [] v = "2" -> 2 [] v = "3" -> 3

\* Every text a key value can take after astype(str), in the order Python
\* sorts strings.
TextOrder ==
    <<"1", "1.0", "2", "2.0", "3", "3.0">> \o [k \in 1..(MaxMany + 1) |-> BigId(k)]

\* sorted(list(S)) for a set S of such texts.
SortedTexts(S) == SelectSeq(TextOrder, LAMBDA s : s \in S)

\* seq[:n] and Series.head(n)
HeadN(seq, n) == SubSeq(seq, 1, Min(n, Len(seq)))

\* The outcome of one check: no exception, or an AssertionError with its
\* message.
OK == [ok |-> TRUE]
Failed(msg) == [ok |-> FALSE, msg |-> msg]

\* _assert, lines 36-38.
assert_cond(cond, msg) == IF cond THEN OK ELSE Failed(msg)

\* _assert_columns, lines 41-43.
assert_columns(hdr, cols, table) ==
    LET missing == SelectSeq(cols, LAMBDA c : c \notin hdr)
    IN assert_cond(missing = <<>>,
                   [check |-> "columns", name |-> table, sample |-> missing])

\* A duplicated() that marks no row.
DuplicatedNever(rows, cols) == {}

\* df.duplicated(cols, keep=False): the rows whose key occurs more than once
\* (missing values compare equal to each other).
Duplicated(rows, cols) ==
    {i \in 1..Len(rows) :
        \E j \in 1..Len(rows) :
            j # i /\ \A k \in 1..Len(cols) : rows[j][cols[k]] = rows[i][cols[k]]}

\* _assert_unique, lines 46-50.
assert_unique(rows, cols, table) ==
    LET dup == Duplicated(rows, cols)
        dupRows == SelectSeq([i \in 1..Len(rows) |-> i], LAMBDA i : i \in dup)
        sample == [k \in 1..Min(UniqueSampleLimit, Len(dupRows)) |->
                      [c \in Range(cols) |-> rows[dupRows[k]][c]]]
    IN IF dup # {}
       THEN Failed([check |-> "unique", name |-> table, sample |-> sample])
       ELSE OK

\* int(df[c].isna().sum())
NullCount(rows, c) == Cardinality({i \in 1..Len(rows) : rows[i][c] = NULL})

\* _assert_not_null, lines 53-57: the first column of cols, among those the
\* table has, that contains a missing value raises.
assert_not_null(rows, hdr, cols, table) ==
    LET bad == SelectSeq(cols, LAMBDA c : c \in hdr /\ NullCount(rows, c) # 0)
    IN IF bad = <<>> THEN OK
       ELSE Failed([check |-> "not_null", name |-> table \o "." \o bad[1],
                    sample |-> <<NullCount(rows, bad[1])>>])

\* sorted(list(child_vals - parent_vals)), line 71 before the slice.
FkMissingSorted(child, child_col, parent, parent_col) ==
    SortedTexts(FkMissing(child, child_col, parent, parent_col))

\* The slice [:10] of line 71, keeping everything instead.
FkSampleUnbounded(sorted) == sorted

\* The slice [:10] of line 71.
FkSample(sorted) == HeadN(sorted, FkSampleLimit)

\* _assert_fk, lines 60-72.
assert_fk(child, chdr, child_col, parent, phdr, parent_col, name) ==
    IF child_col \notin chdr \/ parent_col \notin phdr THEN OK
    ELSE LET missing == FkSample(FkMissingSorted(child, child_col, parent, parent_col))
         IN assert_cond(Len(missing) = 0,
                        [check |-> "fk", name |-> name, sample |-> missing])

\* A column of texts as a series of values, each missing or not.
TextSeries(rows, c) ==
    [i \in 1..Len(rows) |-> [isna |-> rows[i][c] = NULL, val |-> rows[i][c]]]

\* _assert_in_set, lines 75-80.
assert_in_set(series, allowed, name) ==
    LET s == SelectSeq(series, LAMBDA x : ~x.isna)
        bad == SelectSeq(s, LAMBDA x : x.val \notin allowed)
    IN IF bad # <<>>
       THEN Failed([check |-> "in_set", name |-> name,
                    sample |-> [k \in 1..Min(SetSampleLimit, Len(bad)) |-> bad[k].val]])
       ELSE OK

\* pd.to_numeric(series, errors="coerce"): a text that is not a number
\* becomes missing.
ToNumericCoerce(series) ==
    [i \in 1..Len(series) |->
        IF IsNumeric(series[i]) THEN Num(TokenValue(series[i])) ELSE NaN]

\* ... followed by dropna(): the numbers that remain.
NumericValues(series) ==
    LET s == SelectSeq(ToNumericCoerce(series), LAMBDA x : ~x.isna)
    IN [i \in 1..Len(s) |-> s[i].val]

\* An absent bound (None) and a given one.
NoBound == [has |-> FALSE, val |-> 0]
Bound(v) == [has |-> TRUE, val |-> v]

\* A range check whose lower bound is never compared.
assert_range_upper_only(series, lo, hi, name) ==
    LET s == NumericValues(series)
        above == SelectSeq(s, LAMBDA x : hi.has /\ x > hi.val)
    IN IF s = <<>> \/ above = <<>> THEN OK
       ELSE Failed([check |-> "range", name |-> name, bound |-> "hi",
                    sample |-> HeadN(above, RangeSampleLimit)])

\* _assert_range, lines 83-95.
assert_range(series, lo, hi, name) ==
    LET s == NumericValues(series)
        below == SelectSeq(s, LAMBDA x : lo.has /\ x < lo.val)
        above == SelectSeq(s, LAMBDA x : hi.has /\ x > hi.val)
    IN IF s = <<>> THEN OK
       ELSE IF below # <<>>
       THEN Failed([check |-> "range", name |-> name, bound |-> "lo",
                    sample |-> HeadN(below, RangeSampleLimit)])
       ELSE IF above # <<>>
       THEN Failed([check |-> "range", name |-> name, bound |-> "hi",
                    sample |-> HeadN(above, RangeSampleLimit)])
       ELSE OK

\* The tables as main() holds them.
Table(t) ==
    CASE t = "documents" -> documents [] t = "chunks" -> chunks
      [] t = "runs" -> runs [] t = "scenarios" -> scenarios
      [] t = "events" -> events

\* FILES, lines 23-29, without the extension.
FileStem(t) ==
    CASE t = "documents" -> "rag_corpus_documents" [] t = "chunks" -> "rag_corpus_chunks"
      [] t = "runs" -> "rag_qa_eval_runs" [] t = "scenarios" -> "rag_qa_scenarios"
      [] t = "events" -> "rag_retrieval_events"

\* One check of main(): an identifier for the record of what ran, and its
\* outcome.
Check(id, res) == [id |-> id, res |-> res]

\* Required columns, lines 112-124.
RequiredColumns ==
    [t \in AllTables |->
        CASE t = "documents" -> <<"doc_id">>
          [] t = "chunks" -> <<"chunk_id", "doc_id">>
          [] t = "scenarios" -> <<"scenario_id">>
          [] t = "runs" -> <<"run_id", "scenario_id", "example_id", "query_id">>
          [] t = "events" -> <<"run_id", "chunk_id", "rank", "is_relevant">>]

\* The order in which the column, uniqueness and not-null checks visit the
\* tables.
CheckOrder == <<"documents", "chunks", "scenarios", "runs", "events">>

ColumnChecks ==
    [k \in 1..Len(CheckOrder) |->
        LET t == CheckOrder[k]
        IN Check("columns:" \o t,
                 assert_columns(header[t], RequiredColumns[t], FileStem(t)))]

\* PK uniqueness, lines 127-131.
PrimaryKey ==
    [t \in AllTables |->
        CASE t = "documents" -> <<"doc_id">>
          [] t = "chunks" -> <<"chunk_id">>
          [] t = "scenarios" -> <<"scenario_id">>
          [] t = "runs" -> <<"run_id">>
          [] t = "events" -> <<"run_id", "chunk_id", "rank">>]

UniqueChecks ==
    [k \in 1..Len(CheckOrder) |->
        LET t == CheckOrder[k]
        IN Check("unique:" \o t, assert_unique(Table(t), PrimaryKey[t], FileStem(t)))]

\* Not-null policy, lines 134-142.
NotNullColumns ==
    [t \in AllTables |->
        IF t = "events" THEN <<"run_id", "chunk_id", "rank">> ELSE RequiredColumns[t]]

NotNullChecks ==
    [k \in 1..Len(CheckOrder) |->
        LET t == CheckOrder[k]
        IN Check("not_null:" \o t,
                 assert_not_null(Table(t), header[t], NotNullColumns[t], FileStem(t)))]

\* Foreign keys, lines 145-162, in the order they are checked.
ForeignKeys ==
    <<[child |-> "chunks", child_col |-> "doc_id",
       parent |-> "documents", parent_col |-> "doc_id"],
      [child |-> "runs", child_col |-> "scenario_id",
       parent |-> "scenarios", parent_col |-> "scenario_id"],
      [child |-> "events", child_col |-> "run_id",
       parent |-> "runs", parent_col |-> "run_id"],
      [child |-> "events", child_col |-> "chunk_id",
       parent |-> "chunks", parent_col |-> "chunk_id"],
      [child |-> "events", child_col |-> "scenario_id",
       parent |-> "scenarios", parent_col |-> "scenario_id"]>>

FkName(fk) ==
    fk.child \o "." \o fk.child_col \o " -> " \o fk.parent \o "." \o fk.parent_col

FkChecks ==
    [k \in 1..Len(ForeignKeys) |->
        LET fk == ForeignKeys[k]
        IN Check("fk:" \o FkName(fk),
                 assert_fk(Table(fk.child), header[fk.child], fk.child_col,
                           Table(fk.parent), header[fk.parent], fk.parent_col,
                           FkName(fk)))]

\* Enums / booleans, lines 165-183.
BoolAllowed == {0, 1}
BoolTables == <<"runs", "events">>
BoolColumns ==
    <<"is_correct", "hallucination_flag", "has_answer_in_corpus",
      "is_noanswer_probe", "answered_without_retrieval", "is_relevant">>
SplitAllowed == {"train", "val", "test"}

EnumChecks ==
    Flatten([a \in 1..Len(BoolTables) |->
       LET t == BoolTables[a]
           cols == SelectSeq(BoolColumns, LAMBDA c : c \in header[t])
       IN [b \in 1..Len(cols) |->
             Check("bool:" \o t \o "." \o cols[b],
                   assert_in_set(ToNumericCoerce(Col(Table(t), cols[b])), BoolAllowed,
                                 FileStem(t) \o "." \o cols[b]))]])
    \o (IF "split" \in header["events"]
        THEN <<Check("enum:events.split",
                     assert_in_set(TextSeries(events, "split"), SplitAllowed,
                                   "rag_retrieval_events.split"))>>
        ELSE <<>>)

\* Range checks, lines 186-209.
RankLo == 1
LatencyColumns == <<"total_latency_ms", "retrieval_latency_ms", "generation_latency_ms">>
UnitColumns == <<"recall_at_k", "mrr_at_10", "faithfulness_score">>

RunsRangeChecks(cols, lo, hi) ==
    LET have == SelectSeq(cols, LAMBDA c : c \in header["runs"])
    IN [b \in 1..Len(have) |->
          Check("range:runs." \o have[b],
                assert_range(Col(runs, have[b]), lo, hi,
                             "rag_qa_eval_runs." \o have[b]))]

RangeChecks ==
    (IF "rank" \in header["events"]
     THEN <<Check("range:events.rank",
                  assert_range(Col(events, "rank"), Bound(RankLo), NoBound,
                               "rag_retrieval_events.rank"))>>
     ELSE <<>>)
    \o (IF "retrieval_score" \in header["events"]
        THEN <<Check("finite:events.retrieval_score",
                  assert_cond(\E i \in 1..Len(events) :
                                 events[i]["retrieval_score"] # NULL,
                              [check |-> "finite",
                               name |-> "rag_retrieval_events.retrieval_score",
                               sample |-> <<>>]))>>
        ELSE <<>>)
    \o RunsRangeChecks(LatencyColumns, Bound(0), NoBound)
    \o RunsRangeChecks(<<"total_cost_usd">>, Bound(0), NoBound)
    \o RunsRangeChecks(UnitColumns, Bound(0), Bound(1))

\* (df[c].astype(str).str.len() == 0).sum(), lines 213 and 217.
EmptyTextCount(rows, c) ==
    Cardinality({i \in 1..Len(rows) : Len(AsTypeStr(DType(rows, c), rows[i][c])) = 0})

\* Text sanity, lines 212-218.
TextChecks ==
    (IF "chunk_text" \in header["chunks"]
     THEN <<Check("text:chunks.chunk_text",
                  assert_cond(EmptyTextCount(chunks, "chunk_text") = 0,
                              [check |-> "text", name |-> "rag_corpus_chunks.chunk_text",
                               sample |-> <<>>]))>>
     ELSE <<>>)
    \o (IF "query" \in header["runs"]
        THEN <<Check("text:runs.query",
                  assert_cond(EmptyTextCount(runs, "query") = 0,
                              [check |-> "text", name |-> "rag_qa_eval_runs.query",
                               sample |-> <<>>]))>>
        ELSE <<>>)

\* The position of the last check of a group that raises, 0 when none does:
\* what is reported when failures accumulate instead of raising.
LastFailure(group) ==
    IF \E k \in 1..Len(group) : ~group[k].res.ok
    THEN CHOOSE k \in 1..Len(group) :
            ~group[k].res.ok /\ \A j \in (k + 1)..Len(group) : group[j].res.ok
    ELSE 0

\* The position of the first check of a group that raises, 0 when none does.
FirstFailure(group) ==
    IF \E k \in 1..Len(group) : ~group[k].res.ok
    THEN CHOOSE k \in 1..Len(group) :
            ~group[k].res.ok /\ \A j \in 1..(k - 1) : group[j].res.ok
    ELSE 0

\* The checks of a group that execute: all of them, or those up to the first
\* that raises.
Executed(group) ==
    LET f == FirstFailure(group)
        upto == IF f = 0 THEN Len(group) ELSE f
    IN [k \in 1..upto |-> group[k].id]

\* __main__, lines 224-229: an AssertionError is printed on standard error
\* behind the failure marker and the process exits with status 1.
AssertionCaught(msg) ==
    /\ pc' = "failed"
    /\ exit_code' = 1
    /\ stderr' = Append(stderr, [kind |-> "marker", text |-> "AssertionError",
                                 msg |-> msg])

\* One block of checks of main(): they run in order; the first that raises
\* ends the run, otherwise control reaches the next block.
vd_Group(at, group, next) ==
    /\ pc = at
    /\ mem' = [ran |-> mem.ran \o Executed(group)]
    /\ LET f == FirstFailure(group)
       IN IF f = 0
          THEN /\ pc' = next
               /\ UNCHANGED <<exit_code, stderr>>
          ELSE AssertionCaught(group[f].res.msg)
    /\ UNCHANGED <<dataVars, repoVars, args, stdout, out_files>>

\* The order in which main() reads the files, lines 105-109.
ReadOrder == <<"documents", "chunks", "runs", "scenarios", "events">>

\* A reading step whose errors are reported like an AssertionError.
vd_ReadReportingAll ==
    /\ pc = "start"
    /\ LET bad == SelectSeq(ReadOrder, LAMBDA t : t \notin present \/ header[t] = {})
       IN IF bad = <<>>
          THEN /\ pc' = "columns"
               /\ UNCHANGED <<exit_code, stderr>>
          ELSE AssertionCaught([check |-> "read", name |-> FileStem(bad[1]),
                                sample |-> <<>>])
    /\ UNCHANGED <<dataVars, repoVars, args, mem, stdout, out_files>>

\* main(), lines 105-109: pd.read_csv raises FileNotFoundError for an absent
\* file and EmptyDataError for a file without a header line; neither is an
\* AssertionError, so neither is caught.
vd_Read ==
    /\ pc = "start"
    /\ LET bad == SelectSeq(ReadOrder, LAMBDA t : t \notin present \/ header[t] = {})
       IN IF bad = <<>>
          THEN /\ pc' = "columns"
               /\ UNCHANGED <<exit_code, stderr>>
          ELSE Uncaught(IF bad[1] \notin present THEN "FileNotFoundError"
                        ELSE "EmptyDataError")
    /\ UNCHANGED <<dataVars, repoVars, args, mem, stdout, out_files>>

vd_Columns == vd_Group("columns", ColumnChecks, "unique")
vd_Unique == vd_Group("unique", UniqueChecks, "not_null")
vd_NotNull == vd_Group("not_null", NotNullChecks, "fk")
vd_Fk == vd_Group("fk", FkChecks, "enums")
vd_Enums == vd_Group("enums", EnumChecks, "ranges")
vd_Ranges == vd_Group("ranges", RangeChecks, "text")
vd_Text == vd_Group("text", TextChecks, "checked")

\* main(), lines 220-221: the confirmation and the return value 0.
vd_Pass ==
    /\ pc = "checked"
    /\ pc' = "passed"
    /\ stdout' = Append(stdout, "Dataset validation passed.")
    /\ exit_code' = 0
    /\ UNCHANGED <<dataVars, repoVars, args, mem, stderr, out_files>>

NextValidate ==
    \/ vd_Read
    \/ vd_Columns
    \/ vd_Unique
    \/ vd_NotNull
    \/ vd_Fk
    \/ vd_Enums
    \/ vd_Ranges
    \/ vd_Text
    \/ vd_Pass

SpecValidate == InitValidate /\ [][NextValidate]_vars



(***************************************************************************)
(* Properties of validate_dataset.py                                       *)
(***************************************************************************)
Passed == pc = "passed" /\ exit_code = 0 /\ stdout = <<"Dataset validation passed.">>

\* The run ended with the AssertionError of the named kind of check.
FailedOn(check) ==
    /\ pc = "failed"
    /\ stderr[Len(stderr)].kind = "marker"
    /\ stderr[Len(stderr)].msg.check = check

\* Every non-null value of the child column is a value of the parent column.
FkResolved(fk) ==
    fk.child_col \in header[fk.child] =>
       /\ fk.parent_col \in header[fk.parent]
       /\ \A i \in 1..Len(Table(fk.child)) :
             Table(fk.child)[i][fk.child_col] # NULL =>
                \E j \in 1..Len(Table(fk.parent)) :
                   Table(fk.parent)[j][fk.parent_col] = Table(fk.child)[i][fk.child_col]

\* The texts of the non-null values of a column, as str() gives them.
ColumnTexts(t, c) ==
    {AsTypeStr(DType(Table(t), c), Table(t)[i][c]) :
        i \in {k \in 1..Len(Table(t)) : Table(t)[k][c] # NULL}}

\* The foreign key an FK message is about.
ReportedFk ==
    CHOOSE fk \in Range(ForeignKeys) : FkName(fk) = stderr[Len(stderr)].msg.name

\* Position of a text in the order of Python's string comparison.
TextPos(s) == CHOOSE k \in 1..Len(TextOrder) : TextOrder[k] = s

\* An FK message lists child values without a parent: at least one, at most
\* ten, all of them when there are no more than ten, in ascending order.
FkMessageSound ==
    LET listed == stderr[Len(stderr)].msg.sample
        fk == ReportedFk
        dangling == ColumnTexts(fk.child, fk.child_col)
                       \ ColumnTexts(fk.parent, fk.parent_col)
    IN /\ Len(listed) >= 1
       /\ Len(listed) <= 10
       /\ Range(listed) \subseteq dangling
       /\ Cardinality(dangling) <= 10 => Range(listed) = dangling
       /\ \A a, b \in 1..Len(listed) : a < b => TextPos(listed[a]) < TextPos(listed[b])
       /\ \A d \in dangling \ Range(listed) :
             \A a \in 1..Len(listed) : TextPos(listed[a]) < TextPos(d)

\* C5: whenever the validator passes, every non-null child value of the
\* five foreign keys exists among the parent's key values, so that a child
\* value without a parent never lets the run pass; and when the run ends on
\* a foreign-key check, its message lists values that are in the child and
\* not in the parent, at most 10 of them.
C5_FkComplete ==
    /\ Passed => \A k \in 1..Len(ForeignKeys) : FkResolved(ForeignKeys[k])
    /\ (pc \in {"passed", "failed", "crashed"}
          /\ \E k \in 1..Len(ForeignKeys) : ~FkResolved(ForeignKeys[k]))
       => exit_code = 1
    /\ FailedOn("fk") => FkMessageSound

\* A chunks table naming more than ten absent documents ended the run on the
\* foreign-key check, which lists ten of them.
C5_Witness ==
    /\ FailedOn("fk")
    /\ stderr[Len(stderr)].msg.name = "chunks.doc_id -> documents.doc_id"
    /\ Len(stderr[Len(stderr)].msg.sample) = 10
    /\ Cardinality(ColumnTexts("chunks", "doc_id") \ ColumnTexts("documents", "doc_id")) > 10

\* No two rows of the table agree on all columns of the key.
KeyUnique(t, key) ==
    \A i, j \in 1..Len(Table(t)) :
       i # j => \E c \in key : Table(t)[i][c] # Table(t)[j][c]

\* C6: whenever the validator passes, doc_id is duplicate-free in documents,
\* chunk_id in chunks, scenario_id in scenarios, run_id in runs, and the
\* composite (run_id, chunk_id, rank) in events.
C6_PkUnique ==
    Passed =>
       /\ KeyUnique("documents", {"doc_id"})
       /\ KeyUnique("chunks", {"chunk_id"})
       /\ KeyUnique("scenarios", {"scenario_id"})
       /\ KeyUnique("runs", {"run_id"})
       /\ KeyUnique("events", {"run_id", "chunk_id", "rank"})

\* A passing dataset whose events agree on run_id and chunk_id and differ in
\* rank only, and whose runs differ in run_id only while sharing example_id.
C6_Witness ==
    /\ Passed
    /\ Len(events) = 2 /\ Len(runs) = 2
    /\ events[1]["run_id"] = events[2]["run_id"]
    /\ events[1]["chunk_id"] = events[2]["chunk_id"]
    /\ runs[1]["example_id"] = runs[2]["example_id"]

\* C7 as stated: whenever the validator passes, the rank of every retrieval
\* event is a number that is at least 1.
C7_RankAtLeastOne ==
    Passed =>
       \A i \in 1..Len(events) :
          IsNumeric(events[i]["rank"]) /\ TokenValue(events[i]["rank"]) >= 1

\* C7 amended: whenever the validator passes, no retrieval event has a
\* missing rank and every rank that is a number is at least 1; a rank that
\* is not a number is not examined.
C7_NumericRankAtLeastOne ==
    Passed =>
       \A i \in 1..Len(events) :
          /\ events[i]["rank"] # NULL
          /\ IsNumeric(events[i]["rank"]) => TokenValue(events[i]["rank"]) >= 1

\* A passing dataset with an event whose rank is not a number.
C7_Witness ==
    /\ Passed
    /\ \E i \in 1..Len(events) :
          events[i]["rank"] # NULL /\ ~IsNumeric(events[i]["rank"])

\* The run ended on an absent input file.
MissingFileFailure ==
    /\ pc = "crashed"
    /\ stderr[Len(stderr)].text = "FileNotFoundError"

\* The last thing on the error stream carries the failure marker.
MarkerPrinted == stderr # <<>> /\ stderr[Len(stderr)].kind = "marker"

\* C9 as stated: an absent file halts the run before any check, differently
\* from an integrity violation; both kinds of failure are printed on the
\* error stream behind the failure marker with a non-zero exit code; success
\* prints the confirmation and exits 0.
C9_FailuresMarked ==
    /\ MissingFileFailure => mem.ran = <<>>
    /\ (MissingFileFailure \/ pc = "failed") => MarkerPrinted /\ exit_code # 0
    /\ pc = "passed" => Passed

\* C9 amended: an absent file halts the run before any check with an
\* uncaught FileNotFoundError, whose traceback is on the error stream
\* without the failure marker, exit code 1; an integrity violation is
\* printed on the error stream behind the failure marker, exit code 1, after
\* at least one check ran; success prints the confirmation, nothing on the
\* error stream, and exits 0; a run with an absent file ends in no other way
\* than the uncaught exception.
C9_FailurePaths ==
    /\ MissingFileFailure =>
          /\ mem.ran = <<>>
          /\ ~MarkerPrinted
          /\ stderr = <<[kind |-> "traceback", text |-> "FileNotFoundError"]>>
          /\ exit_code = 1
          /\ stdout = <<>>
    /\ pc = "failed" =>
          /\ MarkerPrinted
          /\ Len(stderr) = 1
          /\ exit_code = 1
          /\ stdout = <<>>
          /\ mem.ran # <<>>
    /\ pc = "passed" => Passed /\ stderr = <<>>
    /\ (present # AllTables /\ pc # "start") => pc = "crashed"
    /\ pc \notin {"passed", "failed", "crashed"} => exit_code = -1 /\ stderr = <<>>

\* A run that ended on an absent input file.
C9_Witness == MissingFileFailure /\ present # AllTables /\ exit_code = 1



(***************************************************************************)
(* scripts/summarize_dataset.py                                            *)
(*                                                                         *)
(* Inputs: a runs table of up to MaxRuns rows having any subset of the     *)
(* columns the report uses, an events table with or without rank and      *)
(* is_relevant, and the datasets in which one of the five files is absent. *)
(***************************************************************************)
SummaryRunColumns ==
    {"retrieval_strategy", "domain", "is_correct", "hallucination_flag",
     "total_cost_usd", "total_latency_ms"}
SummaryEventColumns == {"rank", "is_relevant"}

SummaryRunRows ==
    [run_id : {"1"}, retrieval_strategy : {"bm25", "dense"}, domain : {"med"},
     is_correct : {"0", "1"}, hallucination_flag : {"0"}, total_cost_usd : {"1"},
     total_latency_ms : {"1", "3"}]

SummaryEventRows ==
    <<[run_id |-> "1", rank |-> "1", is_relevant |-> "1"],
      [run_id |-> "1", rank |-> "3", is_relevant |-> "0"]>>

\* The rows of a file that has only the columns hdr.
WithColumns(rows, hdr) ==
    [i \in 1..Len(rows) |->
        [c \in DOMAIN rows[i] |-> IF c \in hdr THEN rows[i][c] ELSE NULL]]

InitSummarizeColumns ==
    /\ present = AllTables
    /\ \E rc \in SUBSET SummaryRunColumns, ec \in SUBSET SummaryEventColumns :
          /\ header = [t \in AllTables |->
                         CASE t = "runs" -> {"run_id"} \cup rc
                           [] t = "events" -> {"run_id"} \cup ec
                           [] OTHER -> ValidHeader[t]]
          /\ \E rows \in SeqsUpTo(SummaryRunRows, MaxRuns) :
                runs = WithColumns(rows, {"run_id"} \cup rc)
          /\ events = WithColumns(SummaryEventRows, {"run_id"} \cup ec)

InitSummarizeMissing ==
    /\ \E t \in AllTables : present = AllTables \ {t}
    /\ header = [t \in AllTables |->
                   CASE t = "runs" -> {"run_id"} \cup SummaryRunColumns
                     [] t = "events" -> {"run_id"} \cup SummaryEventColumns
                     [] OTHER -> ValidHeader[t]]
    /\ runs = <<>>
    /\ events = SummaryEventRows

InitSummarize ==
    /\ ProcessStart
    /\ InitSummarizeColumns \/ InitSummarizeMissing
    /\ documents = ValidTables["documents"]
    /\ chunks = ValidTables["chunks"]
    /\ scenarios = ValidTables["scenarios"]
    /\ args = [out |-> "docs/dataset_stats.md"]
    /\ mem = NoMem
    /\ repo_files = NoFiles
    /\ manifest = MISSING

\* Program constant: the number of domains kept, line 61.
TopDomains == 20

\* Series.value_counts(dropna=False): the count of every value, the missing
\* one included.
ValueCounts(series) ==
    [v \in Range(series) |-> Cardinality({i \in 1..Len(series) : series[i] = v})]

\* .head(n) of value counts, which are ordered by falling count.
HeadCounts(counts, n) ==
    IF Cardinality(DOMAIN counts) <= n THEN counts
    ELSE LET D == CHOOSE D \in SUBSET (DOMAIN counts) :
                     /\ Cardinality(D) = n
                     /\ \A a \in D, b \in (DOMAIN counts) \ D : counts[a] >= counts[b]
         IN [v \in D |-> counts[v]]

RECURSIVE SumSeq(_)
SumSeq(s) == IF s = <<>> THEN 0 ELSE Head(s) + SumSeq(Tail(s))

\* float(series.mean()): the mean of the values that are not missing, as the
\* fraction sum / n; nan when there is none.
MeanNaN == [isna |-> TRUE, sum |-> 0, n |-> 0]
Mean(series) ==
    LET s == NumericValues(series)
    IN IF s = <<>> THEN MeanNaN
       ELSE [isna |-> FALSE, sum |-> SumSeq(s), n |-> Len(s)]

\* _pct, lines 29-30: the percentage with two decimals, in hundredths of a
\* percent.
pct(x) == (2 * 10000 * x.sum + x.n) \div (2 * x.n)

\* Series.quantile(q) with linear interpolation, times 100; q is given in
\* hundredths.
Quantile(sorted, q) ==
    LET pos == (Len(sorted) - 1) * q
        lo == pos \div 100
        frac == pos % 100
    IN sorted[lo + 1] * 100
          + (IF frac = 0 THEN 0 ELSE frac * (sorted[lo + 2] - sorted[lo + 1]))

\* _p, lines 33-37: the four percentiles of a column, or the empty dict.
NoPercentiles == [q \in {} |-> 0]
p(rows, col) ==
    LET s == SortSeq(NumericValues(Col(rows, col)), LAMBDA a, b : a < b)
    IN IF s = <<>> THEN NoPercentiles
       ELSE [q \in {50, 90, 95, 99} |-> Quantile(s, q)]

\* events.loc[events["rank"] <= k, "is_relevant"].mean()
RelAt(k) ==
    Mean(Col(SelectSeq(events, LAMBDA r : IsNumeric(r["rank"])
                                            /\ TokenValue(r["rank"]) <= k),
             "is_relevant"))

\* One md.append: the part of the report and what is printed in it.
Part(name, val) == [part |-> name, val |-> val]

\* main(), lines 50-54: read the five files.
sm_Read ==
    /\ pc = "start"
    /\ LET bad == SelectSeq(ReadOrder, LAMBDA t : t \notin present)
       IN IF bad = <<>>
          THEN /\ pc' = "read"
               /\ UNCHANGED <<exit_code, stderr>>
          ELSE Uncaught("FileNotFoundError")
    /\ UNCHANGED <<dataVars, repoVars, args, mem, stdout, out_files>>

\* main(), lines 57-61: the total and the two distributions.  Indexing a
\* column the table does not have raises KeyError, which nothing catches.
sm_Distributions ==
    /\ pc = "read"
    /\ IF "retrieval_strategy" \notin header["runs"]
       THEN Uncaught("KeyError: retrieval_strategy") /\ UNCHANGED mem
       ELSE IF "domain" \notin header["runs"]
       THEN Uncaught("KeyError: domain") /\ UNCHANGED mem
       ELSE /\ pc' = "metrics"
            /\ mem' = [total_rows |-> Len(documents) + Len(chunks) + Len(runs)
                                        + Len(scenarios) + Len(events),
                       by_strategy |-> ValueCounts(Col(runs, "retrieval_strategy")),
                       by_domain |-> HeadCounts(ValueCounts(Col(runs, "domain")),
                                                TopDomains)]
            /\ UNCHANGED <<exit_code, stderr>>
    /\ UNCHANGED <<dataVars, repoVars, args, stdout, out_files>>

\* main(), lines 63-80: the means and percentiles, each behind a test for its
\* column.
sm_Metrics ==
    /\ pc = "metrics"
    /\ pc' = "render"
    /\ mem' = [total_rows |-> mem.total_rows,
               by_strategy |-> mem.by_strategy,
               by_domain |-> mem.by_domain,
               acc |-> IF "is_correct" \in header["runs"]
                       THEN Mean(Col(runs, "is_correct")) ELSE MeanNaN,
               hall |-> IF "hallucination_flag" \in header["runs"]
                        THEN Mean(Col(runs, "hallucination_flag")) ELSE MeanNaN,
               cost_ps |-> IF "total_cost_usd" \in header["runs"]
                           THEN p(runs, "total_cost_usd") ELSE NoPercentiles,
               lat_ps |-> IF "total_latency_ms" \in header["runs"]
                          THEN p(runs, "total_latency_ms") ELSE NoPercentiles,
               rel_at_5 |-> IF {"rank", "is_relevant"} \subseteq header["events"]
                            THEN RelAt(5) ELSE MeanNaN,
               rel_at_10 |-> IF {"rank", "is_relevant"} \subseteq header["events"]
                             THEN RelAt(10) ELSE MeanNaN]
    /\ UNCHANGED <<dataVars, repoVars, args, exit_code, stdout, stderr, out_files>>

\* main(), lines 82-133: the parts of the report in the order appended.
Report(m) ==
    <<Part("title", <<>>),
      Part("total_rows", m.total_rows),
      Part("table_sizes",
           <<Len(documents), Len(chunks), Len(scenarios), Len(runs), Len(events)>>),
      Part("labels_heading", <<>>)>>
    \o (IF ~m.acc.isna THEN <<Part("accuracy", pct(m.acc))>> ELSE <<>>)
    \o (IF ~m.hall.isna THEN <<Part("hallucination_rate", pct(m.hall))>> ELSE <<>>)
    \o <<Part("relevance_heading", <<>>)>>
    \o (IF ~m.rel_at_5.isna THEN <<Part("rel_at_5", pct(m.rel_at_5))>> ELSE <<>>)
    \o (IF ~m.rel_at_10.isna THEN <<Part("rel_at_10", pct(m.rel_at_10))>> ELSE <<>>)
    \o (IF DOMAIN m.cost_ps # {} THEN <<Part("cost_percentiles", m.cost_ps)>> ELSE <<>>)
    \o (IF DOMAIN m.lat_ps # {} THEN <<Part("latency_percentiles", m.lat_ps)>> ELSE <<>>)
    \o <<Part("strategies", m.by_strategy), Part("domains", m.by_domain)>>

sm_Render ==
    /\ pc = "render"
    /\ pc' = "write"
    /\ mem' = [md |-> Report(mem)]
    /\ UNCHANGED <<dataVars, repoVars, args, exit_code, stdout, stderr, out_files>>

\* main(), lines 135-137: write the report, print where, return 0.
sm_Write ==
    /\ pc = "write"
    /\ pc' = "done"
    /\ out_files' = (args.out :> mem.md)
    /\ stdout' = Append(stdout, "Wrote stats: " \o args.out)
    /\ exit_code' = 0
    /\ UNCHANGED <<dataVars, repoVars, args, mem, stderr>>

NextSummarize ==
    \/ sm_Read
    \/ sm_Distributions
    \/ sm_Metrics
    \/ sm_Render
    \/ sm_Write

SpecSummarize == InitSummarize /\ [][NextSummarize]_vars


(***************************************************************************)
(* Properties of summarize_dataset.py                                      *)
(***************************************************************************)
\* The parts of the report that was written.
ReportParts ==
    IF args.out \in DOMAIN out_files
    THEN {out_files[args.out][k].part : k \in 1..Len(out_files[args.out])}
    ELSE {}

\* The parts of the report that print figures of a column.
PartsOf(c) ==
    CASE c = "retrieval_strategy" -> {"strategies"}
      [] c = "domain" -> {"domains"}
      [] c = "is_correct" -> {"accuracy"}
      [] c = "hallucination_flag" -> {"hallucination_rate"}
      [] c = "total_cost_usd" -> {"cost_percentiles"}
      [] c = "total_latency_ms" -> {"latency_percentiles"}
      [] c \in {"rank", "is_relevant"} -> {"rel_at_5", "rel_at_10"}

\* C10 as stated: when the five files are there, whichever of the columns
\* the report uses are absent, the run ends with the report written and
\* exit code 0, without the parts of the absent columns.
C10_OptionalColumnsOmitted ==
    (present = AllTables /\ pc \in {"done", "crashed"}) =>
       /\ pc = "done"
       /\ exit_code = 0
       /\ args.out \in DOMAIN out_files
       /\ \A c \in SummaryRunColumns \ header["runs"] : PartsOf(c) \cap ReportParts = {}
       /\ \A c \in SummaryEventColumns \ header["events"] :
             PartsOf(c) \cap ReportParts = {}

\* A runs table without retrieval_strategy ended the run with KeyError and
\* without a report.
C10_Witness ==
    /\ present = AllTables
    /\ "retrieval_strategy" \notin header["runs"]
    /\ pc = "crashed"
    /\ exit_code = 1
    /\ stderr = <<[kind |-> "traceback", text |-> "KeyError: retrieval_strategy"]>>
    /\ out_files = NoFiles



(***************************************************************************)
(* Order of the validator's checks                                         *)
(***************************************************************************)
\* The blocks of main() in the order named by the claim: required columns,
\* primary-key uniqueness, not-null, foreign keys, boolean/enum sets, ranges,
\* text.
BlocksInOrder ==
    <<ColumnChecks, UniqueChecks, NotNullChecks, FkChecks, EnumChecks,
      RangeChecks, TextChecks>>

\* Every check this dataset calls for, in that order, with what it would
\* find.
ChecksInOrder == Flatten(BlocksInOrder)

\* The number of the block a check of ChecksInOrder belongs to.
BlockOf(k) ==
    CHOOSE b \in 1..Len(BlocksInOrder) :
       LET before == Len(Flatten(SubSeq(BlocksInOrder, 1, b - 1)))
       IN before < k /\ k <= before + Len(BlocksInOrder[b])

\* What ran so far is an initial part of the checks in order.
RanInOrder(all) ==
    /\ Len(mem.ran) <= Len(all)
    /\ \A k \in 1..Len(mem.ran) : mem.ran[k] = all[k].id

\* At a failure: the check that ran last is the one that raised, everything
\* before it found nothing, one message is on the error stream and it is
\* that check's, and the exit code is 1.
FirstViolationReported(all) ==
    LET last == Len(mem.ran)
    IN /\ last >= 1
       /\ \A k \in 1..(last - 1) : all[k].res.ok
       /\ ~all[last].res.ok
       /\ stderr = <<[kind |-> "marker", text |-> "AssertionError",
                      msg |-> all[last].res.msg]>>
       /\ stdout = <<>>
       /\ exit_code = 1

\* C11: the checks run in the order required columns, primary-key
\* uniqueness, not-null, foreign keys, boolean/enum sets, ranges, text; the
\* first check that fails ends the run with exactly one message, that of the
\* earliest failing check, and exit code 1; no check runs after it, and a
\* run passes only after every check ran and found nothing.
C11_OrderAndShortCircuit ==
    /\ [](LET all == ChecksInOrder
          IN /\ RanInOrder(all)
             /\ pc = "failed" => FirstViolationReported(all)
             /\ pc = "passed" =>
                   /\ Len(mem.ran) = Len(all)
                   /\ \A k \in 1..Len(all) : all[k].res.ok)
    /\ [][pc # "failed" /\ Len(mem'.ran) >= Len(mem.ran)]_vars

\* A dataset with violations in two different blocks of checks ended on the
\* earlier one, the later one never having run.
C11_Witness ==
    /\ pc = "failed"
    /\ LET all == ChecksInOrder
       IN \E k \in 1..Len(all) :
             /\ k > Len(mem.ran)
             /\ ~all[k].res.ok
             /\ BlockOf(k) > BlockOf(Len(mem.ran))



(***************************************************************************)
(* The text check of the validator                                         *)
(***************************************************************************)
\* The table has the text column and a row whose field of it was empty in
\* the CSV file.
HasEmptyText(t, c) ==
    /\ c \in header[t]
    /\ \E i \in 1..Len(Table(t)) : Table(t)[i][c] = ReadCsvField("")

\* The table has the text column and a row whose value, stringified, has
\* zero length.
HasZeroLengthText(t, c) ==
    /\ c \in header[t]
    /\ \E i \in 1..Len(Table(t)) :
          Len(AsTypeStr(DType(Table(t), c), Table(t)[i][c])) = 0

\* C12 as stated: the validator does not pass a dataset in which a
\* chunk_text value of chunks or a query value of runs has zero length once
\* stringified, nor one in which such a text field of the CSV file is empty.
C12_EmptyTextRejected ==
    ( \/ HasZeroLengthText("chunks", "chunk_text")
      \/ HasZeroLengthText("runs", "query")
      \/ HasEmptyText("chunks", "chunk_text")
      \/ HasEmptyText("runs", "query") )
    => pc # "passed"

\* A dataset with an empty text field passed: the text check ran on it and
\* the run ended with the confirmation and exit code 0.
C12_Witness ==
    /\ Passed
    /\ HasEmptyText("chunks", "chunk_text") \/ HasEmptyText("runs", "query")
    /\ \E k \in 1..Len(mem.ran) :
          mem.ran[k] \in {"text:chunks.chunk_text", "text:runs.query"}



(***************************************************************************)
(* Size and content of the sample written by make_sample.py                *)
(***************************************************************************)
\* The columns of the written files.
SampleColumns == [t \in AllTables |-> FullHeader[t]]

\* The written field is the text of the source cell.
SameText(out, src) == out = (IF src = NULL THEN "" ELSE src)

\* The written field has the value of the source cell: the empty field for
\* a missing value, the same text, or the same number written with a
\* decimal point.
SameValue(out, src) ==
    \/ SameText(out, src)
    \/ src # NULL /\ IsNumeric(src) /\ out = src \o ".0"

\* The rows of the written file t are rows of the source table t, each
\* source row used at most once, cell by cell alike under the given
\* comparison of a written field with a source cell.
RowsTakenFrom(t, alike) ==
    \E pos \in [1..Len(out_files[t]) -> 1..Len(Table(t))] :
       /\ \A i, j \in 1..Len(out_files[t]) : i # j => pos[i] # pos[j]
       /\ \A i \in 1..Len(out_files[t]) :
             \A c \in SampleColumns[t] :
                alike[<<out_files[t][i][c], Table(t)[pos[i]][c]>>]

\* The pairs of a written field and a source cell that can occur.
FieldPairs ==
    LET cells == UNION {UNION {Cells(Table(t), c) : c \in SampleColumns[t]}
                           : t \in AllTables}
    IN (cells \cup {"", NULL} \cup {v \o ".0" : v \in cells}) \X (cells \cup {NULL})

\* C13 as stated: for every n-events value and every events table the
\* sampler ends having written exactly min(n, |E|) event rows, distinct rows
\* of E, and every written table holds only rows of its source table,
\* unchanged.
C13_AnyCountRowsUnchanged ==
    (present = AllTables /\ pc \in {"done", "crashed"}) =>
       /\ pc = "done"
       /\ Len(out_files["events"]) = Min(args.n_events, Len(events))
       /\ \A t \in AllTables :
             RowsTakenFrom(t, [fs \in FieldPairs |-> SameText(fs[1], fs[2])])

\* C13 amended: for every n-events value n >= 0 and every events table E the
\* sampler writes exactly min(n, |E|) event rows, distinct rows of E, all of
\* E when n is at least |E|; every written table holds only rows of its
\* source table, each at most once and with the values of the source (a
\* missing value as the empty field, a number possibly with a decimal
\* point); with a negative n the sampler ends on an uncaught ValueError and
\* writes nothing.
C13_SizeAndContainment ==
    /\ pc = "done" =>
          /\ args.n_events >= 0
          /\ Len(out_files["events"]) = Min(args.n_events, Len(events))
          /\ args.n_events >= Len(events) => Len(out_files["events"]) = Len(events)
          /\ \A t \in AllTables :
                RowsTakenFrom(t, [fs \in FieldPairs |-> SameValue(fs[1], fs[2])])
    /\ (present = AllTables /\ args.n_events < 0 /\ pc # "start") =>
          /\ pc = "crashed"
          /\ stderr = <<[kind |-> "traceback", text |-> "ValueError"]>>
          /\ out_files = NoFiles

\* A request for more events than there are wrote both of two different
\* events.
C13_Witness ==
    /\ pc = "done"
    /\ Len(events) = 2
    /\ events[1] # events[2]
    /\ args.n_events > Len(events)
    /\ Len(out_files["events"]) = 2

=============================================================================
